---- MODULE Spec2Model ----
(***************************************************************************)
(* A model of tsc_utils: the TSC numeric codec (numbers.py), the flag /     *)
(* address mapping (flags.py) and the event-script generator (codegen.py).  *)
(* Bytes are integers 0..255, byte strings are sequences of bytes, Python   *)
(* ints are unbounded integers, // and % are \div and % (both floor).       *)
(***************************************************************************)
EXTENDS Integers, Sequences, FiniteSets, TLC

VARIABLES pc, op, arg, ret, back, loop_i, loop_num, loop_value, script, cur, ran, njumps

vars == <<pc, op, arg, ret, back, loop_i, loop_num, loop_value, script, cur, ran, njumps>>

----------------------------------------------------------------------------
(* Bounds of the model *)

\* longest output_length / input length enumerated exhaustively
MaxLen == 2
\* how far past the representable range the enumerated nums reach
NumSlack == 2
\* largest byte offset of the Addresses of the arithmetic calls
MaxOffset == 2
\* largest integer operand of the Address arithmetic calls
MaxShift == 9
\* largest bits argument of address_to_flag
MaxBits == 3
\* largest number of flags handed to codec
MaxFlags == 3

----------------------------------------------------------------------------
(* Program constants *)

\* ord('0')
Ord0 == 48
\* ord('9')
Ord9 == 57
\* b' ', the smallest printable byte
Space == 32
\* b'~', the largest printable byte
Tilde == 126
\* ord('-'), the sign str() writes
Minus == 45

None == "None"

----------------------------------------------------------------------------
(* Python helpers *)

RECURSIVE Pow10(_)
Pow10(k) == IF k <= 0 THEN 1 ELSE 10 * Pow10(k - 1)

RECURSIVE Pow2(_)
Pow2(k) == IF k <= 0 THEN 1 ELSE 2 * Pow2(k - 1)

\* bytes * n
RECURSIVE Repeat(_, _)
Repeat(s, n) == IF n <= 0 THEN <<>> ELSE s \o Repeat(s, n - 1)

\* str(n).encode('utf-8') for an int n
RECURSIVE DecDigits(_)
DecDigits(n) == IF n < 10 THEN <<Ord0 + n>> ELSE DecDigits(n \div 10) \o <<Ord0 + (n % 10)>>

str(n) == IF n < 0 THEN <<Minus>> \o DecDigits(-n) ELSE DecDigits(n)

\* str.zfill(width): pads with '0' on the left, after a leading sign
zfill(s, width) ==
    IF Len(s) >= width THEN s
    ELSE IF Len(s) > 0 /\ s[1] = Minus
         THEN <<Minus>> \o Repeat(<<Ord0>>, width - Len(s)) \o Tail(s)
         ELSE Repeat(<<Ord0>>, width - Len(s)) \o s

PyMax(a, b) == IF a >= b THEN a ELSE b

PyMin(a, b) == IF a <= b THEN a ELSE b

----------------------------------------------------------------------------
(* numbers.py *)

\* the byte read as an 8-bit two's-complement number first
byte_digit_wrapped(b) == IF b >= 128 THEN b - 256 - Ord0 ELSE b - Ord0

\* line 28: digit -= ord('0'), digit an int 0..255 of the bytes iterated
byte_digit(b) == b - Ord0

tsc_value_to_num(value) ==
    LET input_length == Len(value) - 1
        RECURSIVE loop(_, _)
        loop(i, num) ==
            IF i >= Len(value) THEN num
            ELSE loop(i + 1, num + byte_digit(value[i + 1]) * Pow10(input_length - i))
    IN loop(0, 0)

\* range(lo, hi): the upper bound left out
in_range_exclusive(num, lo, hi) == num >= lo /\ num < hi

\* num in range(lo, hi + 1)
in_range(num, lo, hi) == num >= lo /\ num <= hi

\* lines 112-116: the digit _single_char_value puts at dec_place
single_digit(num, dec_place) ==
    LET digit == num \div Pow10(dec_place)
        remainder == num % Pow10(dec_place)
    IN IF remainder # 0 /\ digit < 0 THEN digit - 1 ELSE digit

RECURSIVE _single_char_value(_, _)
_single_char_value(num, dec_place) ==
    LET digit == single_digit(num, dec_place)
        remainder == num % Pow10(dec_place)
        out == <<Ord0 + digit>>
    IN IF dec_place = 0 THEN out
       ELSE IF digit # 0 THEN out \o zfill(str(remainder), dec_place)
       ELSE out \o _single_char_value(num, dec_place - 1)

\* int(num / dec_place), as tsc_divmod of util.py divides: rounds toward zero
multi_digit_truncating(num, dec_place, min_char, max_char) ==
    LET quotient == IF num < 0 THEN 0 - ((0 - num) \div dec_place) ELSE num \div dec_place
    IN PyMax(min_char[1] - Ord0, PyMin(quotient, max_char[1] - Ord0))

\* line 100: the clamped digit of one greedy step
multi_digit(num, dec_place, min_char, max_char) ==
    PyMax(min_char[1] - Ord0, PyMin(num \div dec_place, max_char[1] - Ord0))

_multi_char_value(num, output_length, min_char, max_char) ==
    LET RECURSIVE loop(_, _, _)
        loop(i, n, value) ==
            IF i >= output_length THEN value
            ELSE LET dec_place == Pow10((output_length - 1) - i)
                     char == multi_digit(n, dec_place, min_char, max_char)
                 IN loop(i + 1, n - dec_place * char, Append(value, char + Ord0))
    IN loop(0, num, <<>>)

\* lines 65-71: the checks that raise before any range is computed
precondition_ok(min_char, max_char) ==
    /\ ~(Len(min_char) # 1 \/ Len(max_char) # 1)
    /\ ~(min_char[1] > Ord0)
    /\ ~(max_char[1] < Ord9)

Raise(kind) == [status |-> kind, value |-> <<>>]

Return(value) == [status |-> "ok", value |-> value]

num_to_tsc_value(num, output_length, min_char, max_char) ==
    IF ~precondition_ok(min_char, max_char) THEN Raise("precondition_error")
    ELSE
    LET min_value == tsc_value_to_num(Repeat(min_char, output_length))
        max_value == tsc_value_to_num(Repeat(max_char, output_length))
        min_single == tsc_value_to_num(<<Space>> \o Repeat(<<Ord0>>, output_length - 1))
        max_single == tsc_value_to_num(<<Tilde>> \o Repeat(<<Ord9>>, output_length - 1))
    IN IF ~in_range(num, min_value, max_value) THEN Raise("range_error")
       ELSE IF num >= 0 /\ num <= Pow10(output_length - 1)
            THEN Return(zfill(str(num), output_length))
       ELSE IF ~in_range(num, min_single, max_single)
            THEN Return(_multi_char_value(num, output_length, min_char, max_char))
       ELSE Return(_single_char_value(num, output_length - 1))

----------------------------------------------------------------------------
(* flags.py *)

\* an int operand, told apart from an Address by isinstance(other, int)
PyInt(k) == [int |-> k]

\* an Optional[int] argument left at None
PyNone == [none |-> TRUE]

is_None(x) == "none" \in DOMAIN x

isinstance_int(x) == "int" \in DOMAIN x

Address(offset, bit) == [offset |-> offset, bit |-> bit]

\* Address.bits
bits_of(a) == a.offset * 8 + a.bit

\* Address.__add__
Address_add(self, other) ==
    LET o == IF isinstance_int(other) THEN Address(other.int, 0) ELSE other
        sum == self.bit + o.bit
    IN Return(Address((sum \div 8) + self.offset + o.offset, sum % 8))

\* Address.__sub__: other.offset of an int raises AttributeError
Address_sub(self, other) ==
    IF isinstance_int(other) THEN Raise("AttributeError")
    ELSE Address_add(self, Address(0 - other.offset, 0 - other.bit))

\* 0x49DDA0
FREEWARE_OFFSET == 4840864

FREEWARE_FLAGS == Address(FREEWARE_OFFSET, 0)

\* flag is a TscInput (a byte string) or an int
flag_to_address(flag, base) ==
    LET n == IF isinstance_int(flag) THEN flag.int ELSE tsc_value_to_num(flag.bytes)
    IN Address_add(Address(n \div 8, n % 8), base)

\* num & (1 << k) != 0 on a Python int (two's complement of unbounded width)
bit_is_set(num, k) == (num \div Pow2(k)) % 2 = 1

\* the sign bit's weight subtracted instead of 1 << bits
twos_complement_half(num, bits) ==
    IF bit_is_set(num, bits - 1) THEN num - Pow2(bits - 1) ELSE num

twos_complement(num, bits) ==
    IF bit_is_set(num, bits - 1) THEN num - Pow2(bits) ELSE num

\* line 89: value >= 1<<(bits)
value_too_large(value, bits) == value >= Pow2(bits)

\* line 104
flag_command(value, i) == IF bit_is_set(value, i) THEN "<FL+" ELSE "<FL-"

Continuation(b) == 128 <= b /\ b <= 191

\* bytes.decode('utf-8'), strict: the code points, or UnicodeDecodeError
RECURSIVE utf8_decode(_)
utf8_decode(b) ==
    LET n == Len(b)
        rest(k, cp) ==
            LET r == utf8_decode(SubSeq(b, k + 1, n))
            IN IF r.ok THEN [ok |-> TRUE, text |-> <<cp>> \o r.text] ELSE r
        bad == [ok |-> FALSE, text |-> <<>>]
    IN IF n = 0 THEN [ok |-> TRUE, text |-> <<>>]
       ELSE IF b[1] < 128 THEN rest(1, b[1])
       ELSE IF 194 <= b[1] /\ b[1] <= 223
            THEN IF n >= 2 /\ Continuation(b[2])
                 THEN rest(2, (b[1] - 192) * 64 + (b[2] - 128)) ELSE bad
       ELSE IF 224 <= b[1] /\ b[1] <= 239
            THEN IF /\ n >= 3 /\ Continuation(b[2]) /\ Continuation(b[3])
                    /\ (b[1] = 224 => b[2] >= 160)
                    /\ (b[1] = 237 => b[2] <= 159)
                 THEN rest(3, (b[1] - 224) * 4096 + (b[2] - 128) * 64 + (b[3] - 128))
                 ELSE bad
       ELSE IF 240 <= b[1] /\ b[1] <= 244
            THEN IF /\ n >= 4 /\ Continuation(b[2]) /\ Continuation(b[3]) /\ Continuation(b[4])
                    /\ (b[1] = 240 => b[2] >= 144)
                    /\ (b[1] = 244 => b[2] <= 143)
                 THEN rest(4, (b[1] - 240) * 262144 + (b[2] - 128) * 4096
                                + (b[3] - 128) * 64 + (b[4] - 128))
                 ELSE bad
       ELSE bad

Raised(kind, where) == [status |-> kind, value |-> <<>>, raised_in |-> where]

address_to_flag(address, value, bits, base, min_char, max_char) ==
    IF ~is_None(value) /\ value_too_large(value.int, bits)
    THEN Raised("range_error", "address_to_flag")
    ELSE
    LET v == IF is_None(value) THEN value
             ELSE IF value.int < 0 THEN PyInt(twos_complement(value.int, bits)) ELSE value
        addr == IF isinstance_int(address) THEN Address(address.int, 0) ELSE address
        num == Address_sub(addr, base).value
        RECURSIVE loop(_, _)
        loop(i, flags) ==
            IF i >= bits THEN [status |-> "ok", value |-> flags, raised_in |-> ""]
            ELSE LET f == num_to_tsc_value(bits_of(Address_add(num, PyInt(i)).value),
                                           4, min_char, max_char)
                 IN IF f.status # "ok" THEN Raised(f.status, "num_to_tsc_value")
                    ELSE IF is_None(v) THEN loop(i + 1, Append(flags, f.value))
                    ELSE LET text == utf8_decode(f.value)
                         IN IF ~text.ok THEN Raised("UnicodeDecodeError", "decode")
                            ELSE loop(i + 1, Append(flags, [command |-> flag_command(v.int, i),
                                                            flag |-> text.text]))
    IN loop(0, <<>>)


----------------------------------------------------------------------------
(* Inputs of the codec calls *)

\* 11...1 (k ones)
RECURSIVE Repunit(_)
Repunit(k) == IF k <= 0 THEN 0 ELSE 10 * Repunit(k - 1) + 1

MinChars == {<<0>>, <<Space>>, <<47>>, <<Ord0>>}

MaxChars == {<<Ord9>>, <<58>>, <<Tilde>>, <<255>>}

BadMinChars == {<<>>, <<49>>, <<47, 47>>}

BadMaxChars == {<<>>, <<56>>, <<58, 58>>}

Lengths == 1..MaxLen

Lo(len, min_char) == (min_char[1] - Ord0) * Repunit(len)

Hi(len, max_char) == (max_char[1] - Ord0) * Repunit(len)

Constraints == (MinChars \cup BadMinChars) \X (MaxChars \cup BadMaxChars)

\* the nums tried with a constraint pair: the whole representable range and
\* NumSlack past either end, or a few nums when the pair is malformed
Nums(len, min_char, max_char) ==
    IF min_char \in MinChars /\ max_char \in MaxChars
    THEN (Lo(len, min_char) - NumSlack)..(Hi(len, max_char) + NumSlack)
    ELSE (0 - NumSlack)..NumSlack

\* the calls of the docstring of num_to_tsc_value
DocCalls ==
    { [num |-> 0, output_length |-> 4, min_char |-> <<Space>>, max_char |-> <<Tilde>>],
      [num |-> -1, output_length |-> 4, min_char |-> <<Space>>, max_char |-> <<Tilde>>],
      [num |-> 100000, output_length |-> 5, min_char |-> <<Space>>, max_char |-> <<Tilde>>],
      [num |-> 100000, output_length |-> 4, min_char |-> <<Space>>, max_char |-> <<255>>] }

SampleBytes == {0, 47, Ord0, Ord9, 127, 128, 255}

RECURSIVE SeqsUpTo(_, _)
SeqsUpTo(S, n) ==
    IF n <= 0 THEN {<<>>}
    ELSE LET shorter == SeqsUpTo(S, n - 1)
         IN shorter \cup {Append(s, b) : s \in shorter, b \in S}

DecodeCalls == SeqsUpTo(SampleBytes, MaxLen) \cup {<<49, 50, 51, 52>>, <<48, 48, 48, 47>>, <<49, 48, 47, 48, 49>>}

----------------------------------------------------------------------------
(* The codec as a state machine: one call, then the decode of its value *)

Idle ==
    /\ pc = "idle" /\ op = None /\ arg = None /\ ret = None /\ back = None
    /\ loop_i = 0 /\ loop_num = 0 /\ loop_value = <<>>
    /\ script = <<>> /\ cur = 0 /\ ran = PyNone /\ njumps = 0

Init == Idle

Call_num_to_tsc_value ==
    /\ pc = "idle"
    /\ \/ \E c \in DocCalls : arg' = c
       \/ \E l \in Lengths, k \in Constraints :
            \E n \in Nums(l, k[1], k[2]) :
                arg' = [num |-> n, output_length |-> l, min_char |-> k[1], max_char |-> k[2]]
    /\ ret' = num_to_tsc_value(arg'.num, arg'.output_length, arg'.min_char, arg'.max_char)
    /\ op' = "num_to_tsc_value"
    /\ pc' = "returned"
    /\ UNCHANGED <<back, loop_i, loop_num, loop_value, script, cur, ran, njumps>>

\* decode(encode(...)): the value just returned handed to tsc_value_to_num
Decode_result ==
    /\ pc = "returned" /\ op = "num_to_tsc_value" /\ ret.status = "ok"
    /\ back' = tsc_value_to_num(ret.value)
    /\ pc' = "decoded"
    /\ UNCHANGED <<op, arg, ret, loop_i, loop_num, loop_value, script, cur, ran, njumps>>

Call_tsc_value_to_num ==
    /\ pc = "idle"
    /\ \E v \in DecodeCalls :
        /\ arg' = [value |-> v]
        /\ ret' = Return(v)
        /\ back' = tsc_value_to_num(v)
    /\ op' = "tsc_value_to_num"
    /\ pc' = "decoded"
    /\ UNCHANGED <<loop_i, loop_num, loop_value, script, cur, ran, njumps>>

Next == Call_num_to_tsc_value \/ Decode_result \/ Call_tsc_value_to_num

Spec == Init /\ [][Next]_vars

----------------------------------------------------------------------------
(* Claims about the codec *)

Encoded == op = "num_to_tsc_value" /\ pc \in {"returned", "decoded"}

ValidConstraints(c) ==
    /\ Len(c.min_char) = 1 /\ Len(c.max_char) = 1
    /\ c.min_char[1] <= 48 /\ c.max_char[1] >= 57

\* C1: decoding the value num_to_tsc_value returned for an accepted num gives
\* back num, whichever strategy produced the value.
C1_RoundTrip ==
    (op = "num_to_tsc_value" /\ pc = "decoded") => back = arg.num

\* C2: with the default byte range, num_to_tsc_value(0) is b'0000',
\* num_to_tsc_value(-1) is b'000/' and num_to_tsc_value(100000, 5) is b':0000'.
C2_IdealValues ==
    (Encoded /\ arg.min_char = <<32>> /\ arg.max_char = <<126>>) =>
        /\ (arg.num = 0 /\ arg.output_length = 4) => ret = Return(<<48, 48, 48, 48>>)
        /\ (arg.num = -1 /\ arg.output_length = 4) => ret = Return(<<48, 48, 48, 47>>)
        /\ (arg.num = 100000 /\ arg.output_length = 5) => ret = Return(<<58, 48, 48, 48, 48>>)

\* C3: every byte of every returned value lies in [min_char, max_char].
C3_BytesWithinConstraint ==
    (Encoded /\ ret.status = "ok") =>
        \A i \in 1..Len(ret.value) :
            arg.min_char[1] <= ret.value[i] /\ ret.value[i] <= arg.max_char[1]

\* C4: malformed constraints fail with a precondition error whatever num is;
\* otherwise the call fails with a range error exactly when num is outside
\* [decode(min_char*length), decode(max_char*length)], and every num inside
\* is accepted and yields a value.
C4_ErrorClassification ==
    Encoded =>
        IF ~ValidConstraints(arg) THEN ret.status = "precondition_error"
        ELSE LET lo == (arg.min_char[1] - 48) * Repunit(arg.output_length)
                 hi == (arg.max_char[1] - 48) * Repunit(arg.output_length)
                 inside == lo <= arg.num /\ arg.num <= hi
             IN /\ ret.status = "range_error" <=> ~inside
                /\ inside <=> ret.status = "ok"
                /\ inside => Len(ret.value) = arg.output_length

\* a num on the upper bound accepted, with valid constraints
C4_Witness ==
    /\ Encoded /\ ValidConstraints(arg) /\ ret.status = "ok"
    /\ arg.num = (arg.max_char[1] - 48) * Repunit(arg.output_length)
    /\ arg.max_char = <<255>> /\ arg.output_length = 2

Decoded == op = "tsc_value_to_num" /\ pc = "decoded"

RECURSIVE PositionalSum(_, _, _)
PositionalSum(v, digit_of, i) ==
    IF i > Len(v) THEN 0
    ELSE digit_of[v[i]] * Pow10(Len(v) - i) + PositionalSum(v, digit_of, i + 1)

\* C5 as stated: the decoder reads each byte as an 8-bit two's-complement
\* number before subtracting ord('0') (byte 0xFF is digit -49).
C5_TwosComplementDigits ==
    Decoded => back = PositionalSum(arg.value, [b \in 0..255 |-> IF b >= 128 THEN b - 256 - 48 ELSE b - 48], 1)

\* C5 amended: tsc_value_to_num(v) is the sum of digit_of(v[i]) * 10^(n-1-i)
\* with digit_of(b) = b - 48 for every byte 0x00..0xFF (byte 0xFF is digit 207).
C5_UnsignedDigits ==
    Decoded => back = PositionalSum(arg.value, [b \in 0..255 |-> b - 48], 1)

\* b'\xff0' decoded to 2070
C5_Witness ==
    Decoded /\ arg.value = <<255, 48>> /\ back = 2070

----------------------------------------------------------------------------
(* _multi_char_value step by step: one action per iteration of its loop *)

Multi_call ==
    /\ pc = "idle"
    /\ \E l \in Lengths, mn \in MinChars, mx \in MaxChars :
        \E n \in Nums(l, mn, mx) :
            /\ arg' = [num |-> n, output_length |-> l, min_char |-> mn, max_char |-> mx]
            /\ loop_num' = n
    /\ loop_i' = 0
    /\ loop_value' = <<>>
    /\ op' = "_multi_char_value"
    /\ pc' = "loop"
    /\ UNCHANGED <<ret, back, script, cur, ran, njumps>>

Multi_step ==
    /\ pc = "loop" /\ loop_i < arg.output_length
    /\ LET dec_place == Pow10((arg.output_length - 1) - loop_i)
           char == multi_digit(loop_num, dec_place, arg.min_char, arg.max_char)
       IN /\ loop_num' = loop_num - dec_place * char
          /\ loop_value' = Append(loop_value, char + Ord0)
    /\ loop_i' = loop_i + 1
    /\ UNCHANGED <<pc, op, arg, ret, back, script, cur, ran, njumps>>

Multi_return ==
    /\ pc = "loop" /\ loop_i >= arg.output_length
    /\ ret' = Return(loop_value)
    /\ pc' = "returned"
    /\ UNCHANGED <<op, arg, back, loop_i, loop_num, loop_value, script, cur, ran, njumps>>

Multi_decode ==
    /\ pc = "returned" /\ op = "_multi_char_value"
    /\ back' = tsc_value_to_num(ret.value)
    /\ pc' = "decoded"
    /\ UNCHANGED <<op, arg, ret, loop_i, loop_num, loop_value, script, cur, ran, njumps>>

MultiNext == Multi_call \/ Multi_step \/ Multi_return \/ Multi_decode

MultiSpec == Init /\ [][MultiNext]_vars

InRepresentableRange(c) ==
    /\ (c.min_char[1] - 48) * Repunit(c.output_length) <= c.num
    /\ c.num <= (c.max_char[1] - 48) * Repunit(c.output_length)

\* C9: for num in the representable range the greedy loop runs exactly
\* output_length steps, the residual after the step for place 10^k stays in
\* [min_digit*R(k), max_digit*R(k)] with R(k) = (10^k - 1)/9, the last residual
\* is 0 and the emitted bytes decode back to num.
C9_MultiTotalExact ==
    (op = "_multi_char_value" /\ InRepresentableRange(arg)) =>
        LET k == arg.output_length - loop_i
            min_digit == arg.min_char[1] - 48
            max_digit == arg.max_char[1] - 48
        IN /\ 0 <= k
           /\ Len(loop_value) = loop_i
           /\ min_digit * ((Pow10(k) - 1) \div 9) <= loop_num
           /\ loop_num <= max_digit * ((Pow10(k) - 1) \div 9)
           /\ \A j \in 1..Len(loop_value) :
                 min_digit <= loop_value[j] - 48 /\ loop_value[j] - 48 <= max_digit
           /\ pc \in {"returned", "decoded"} =>
                 /\ loop_i = arg.output_length
                 /\ loop_num = 0
                 /\ ret = Return(loop_value)
           /\ pc = "decoded" => back = arg.num

\* a negative num that needs two clamped-low digits, decoded back
C9_Witness ==
    /\ op = "_multi_char_value" /\ pc = "decoded"
    /\ arg = [num |-> -500, output_length |-> 2, min_char |-> <<0>>, max_char |-> <<255>>]
    /\ ret.value = <<0, 28>>
    /\ back = -500

----------------------------------------------------------------------------
(* The flag mapping as a state machine: one call of each operation *)

Addresses == {Address(o, b) : o \in (0 - MaxOffset)..MaxOffset, b \in 0..7}

Shifts == {PyInt(k) : k \in (0 - MaxShift)..MaxShift}

Call_Address_add ==
    /\ pc = "idle"
    /\ \E a \in Addresses, o \in Shifts \cup Addresses :
        /\ arg' = [self |-> a, other |-> o]
        /\ ret' = Address_add(a, o)
    /\ op' = "Address.__add__"
    /\ pc' = "returned"
    /\ UNCHANGED <<back, loop_i, loop_num, loop_value, script, cur, ran, njumps>>

Call_Address_sub ==
    /\ pc = "idle"
    /\ \E a \in Addresses, o \in Shifts \cup Addresses :
        /\ arg' = [self |-> a, other |-> o]
        /\ ret' = Address_sub(a, o)
    /\ op' = "Address.__sub__"
    /\ pc' = "returned"
    /\ UNCHANGED <<back, loop_i, loop_num, loop_value, script, cur, ran, njumps>>

Bases == {FREEWARE_FLAGS, Address(FREEWARE_OFFSET - 1, 4)}

FlagInputs ==
    {PyInt(n) : n \in ((0 - MaxShift)..MaxShift) \cup {1234}}
        \cup {[bytes |-> <<48, 48, 48, 47>>], [bytes |-> <<49, 50, 51, 52>>]}

Call_flag_to_address ==
    /\ pc = "idle"
    /\ \E f \in FlagInputs, b \in Bases :
        /\ arg' = [flag |-> f, base |-> b]
        /\ ret' = flag_to_address(f, b)
    /\ op' = "flag_to_address"
    /\ pc' = "returned"
    /\ UNCHANGED <<back, loop_i, loop_num, loop_value, script, cur, ran, njumps>>

\* byte distances from the flags array: around it, the docstring's 0x49e6e8,
\* one past the printable values and one past every 4-byte value
AddressDeltas == {-1, 0, 1, 2376, 10000, 30000}

AddressInputs ==
    {PyInt(FREEWARE_OFFSET + d) : d \in AddressDeltas}
        \cup {Address(FREEWARE_OFFSET + d, b) : d \in AddressDeltas, b \in {0, 5}}

ValueInputs(bits) ==
    {PyNone} \cup {PyInt(v) : v \in (0 - Pow2(bits) - 1)..(Pow2(bits) + 1)}

FlagCalls ==
    {[address |-> a, value |-> v, bits |-> n, base |-> b] :
        n \in 1..MaxBits, a \in AddressInputs,
        v \in ValueInputs(MaxBits), b \in Bases}

\* the calls of the docstring of address_to_flag, the second with 12 bits for
\* its 32 (1 << 32 is past the integers TLC computes with)
FlagDocCalls ==
    { [address |-> PyInt(FREEWARE_OFFSET), value |-> PyNone, bits |-> 8, base |-> FREEWARE_FLAGS],
      [address |-> PyInt(FREEWARE_OFFSET + 2376), value |-> PyInt(256), bits |-> 12,
       base |-> FREEWARE_FLAGS] }

Call_address_to_flag ==
    /\ pc = "idle"
    /\ \E c \in FlagCalls \cup FlagDocCalls :
        /\ arg' = c
        /\ ret' = address_to_flag(c.address, c.value, c.bits, c.base, <<0>>, <<255>>)
    /\ op' = "address_to_flag"
    /\ pc' = "returned"
    /\ UNCHANGED <<back, loop_i, loop_num, loop_value, script, cur, ran, njumps>>

\* each raw flag value decoded, and the Address flag_to_address gives for it
Decode_flags ==
    /\ pc = "returned" /\ op = "address_to_flag"
    /\ ret.status = "ok" /\ is_None(arg.value)
    /\ back' = [i \in 1..Len(ret.value) |->
                  LET n == tsc_value_to_num(ret.value[i])
                  IN [flag |-> n, address |-> flag_to_address(PyInt(n), arg.base).value]]
    /\ pc' = "decoded"
    /\ UNCHANGED <<op, arg, ret, loop_i, loop_num, loop_value, script, cur, ran, njumps>>

FlagNext ==
    \/ Call_Address_add
    \/ Call_Address_sub
    \/ Call_flag_to_address
    \/ Call_address_to_flag
    \/ Decode_flags

FlagSpec == Init /\ [][FlagNext]_vars

----------------------------------------------------------------------------
(* Claims about the flag mapping *)

AsAddress(x) == IF "int" \in DOMAIN x THEN [offset |-> x.int, bit |-> 0] ELSE x

\* C6: without a value, address_to_flag returns bits TSC values that decode
\* to the consecutive flag indices f0, f0+1, ..., f0+bits-1 with
\* f0 = (address - base).bits; flag_to_address of the i-th is the bit i
\* positions after address.  Stated for the addresses at or after base,
\* whose flag indices are not negative.
C6_ConsecutiveFlags ==
    (op = "address_to_flag" /\ pc = "decoded") =>
        LET a == AsAddress(arg.address)
            f0 == (a.offset * 8 + a.bit) - (arg.base.offset * 8 + arg.base.bit)
        IN f0 >= 0 =>
           /\ Len(back) = arg.bits
           /\ \A i \in 0..(arg.bits - 1) :
                 /\ back[i + 1].flag = f0 + i
                 /\ back[i + 1].address.offset * 8 + back[i + 1].address.bit
                        = a.offset * 8 + a.bit + i
                 /\ back[i + 1].address.bit \in 0..7

IntOperand == pc = "returned" /\ "int" \in DOMAIN arg.other

\* C7: an integer operand of Address + and - is a bit count:
\* (a + k).bits = a.bits + k and (a - k).bits = a.bits - k, with 0 <= bit < 8.
C7_IntIsBitCount ==
    /\ (op = "Address.__add__" /\ IntOperand) =>
          /\ ret.status = "ok"
          /\ ret.value.offset * 8 + ret.value.bit
                = arg.self.offset * 8 + arg.self.bit + arg.other.int
          /\ ret.value.bit \in 0..7
    /\ (op = "Address.__sub__" /\ IntOperand) =>
          /\ ret.status = "ok"
          /\ ret.value.offset * 8 + ret.value.bit
                = arg.self.offset * 8 + arg.self.bit - arg.other.int
          /\ ret.value.bit \in 0..7

\* bit i of the bits-wide two's-complement encoding of value
EncodedBit(value, bits, i) ==
    LET unsigned == IF value < 0 THEN value + Pow2(bits) ELSE value
    IN (unsigned \div Pow2(i)) % 2 = 1

\* C8: for -(2^(bits-1)) <= value < 2^bits the call gives exactly bits
\* commands, least-significant bit first, command i being "<FL+" exactly when
\* bit i of the bits-wide two's-complement encoding of value is 1 and "<FL-"
\* otherwise; a value >= 2^bits is rejected with a range error and gives no
\* commands.  (A flag index that cannot be written as a 4-byte value, or
\* whose bytes are not UTF-8, fails the call whatever the value is.)
C8_FlagCommands ==
    (op = "address_to_flag" /\ pc = "returned" /\ "int" \in DOMAIN arg.value) =>
        LET value == arg.value.int
            delta == AsAddress(arg.address).offset - 4840864
        IN /\ value >= Pow2(arg.bits) =>
                 /\ ret.status = "range_error" /\ ret.raised_in = "address_to_flag"
                 /\ ret.value = <<>>
           /\ (0 - Pow2(arg.bits - 1) <= value /\ value < Pow2(arg.bits)) =>
                 /\ ret.raised_in # "address_to_flag"
                 /\ delta \in {-1, 0, 1, 2376} => ret.status = "ok"
                 /\ ret.status = "ok" =>
                       /\ Len(ret.value) = arg.bits
                       /\ \A i \in 0..(arg.bits - 1) :
                             /\ ret.value[i + 1].command \in {"<FL+", "<FL-"}
                             /\ ret.value[i + 1].command = "<FL+"
                                    <=> EncodedBit(value, arg.bits, i)

\* a negative value written as three commands
C8_Witness ==
    /\ op = "address_to_flag" /\ pc = "returned"
    /\ arg.bits = 3 /\ arg.value = [int |-> -3] /\ arg.address = [int |-> 4840864]
    /\ ret.status = "ok" /\ Len(ret.value) = 3
    /\ ret.value[1].command = "<FL+" /\ ret.value[2].command = "<FL-"
    /\ ret.value[3].command = "<FL+"

\* the docstring's call: value 256 sets the 9th command only
C8_DocExample ==
    (op = "address_to_flag" /\ pc = "returned" /\ arg.bits = 12) =>
        /\ ret.status = "ok" /\ Len(ret.value) = 12
        /\ \A i \in 1..12 : ret.value[i].command = "<FL+" <=> i = 9

----------------------------------------------------------------------------
(* codegen.py *)

\* int.bit_length() of a non-negative int
RECURSIVE bit_length(_)
bit_length(val) == IF val <= 0 THEN 0 ELSE 1 + bit_length(val \div 2)

\* val | (1 << i)
or_bit(val, i) == IF bit_is_set(val, i) THEN val ELSE val + Pow2(i)

\* default_behavior
default_behavior(value) == [BEHAVIOR |-> value]

\* lines 26-29: max_val = min(max_val, 2**len(flags))
effective_cap(max_val, n_flags) ==
    LET highest_possible == Pow2(n_flags)
    IN IF is_None(max_val) THEN highest_possible
       ELSE PyMin(max_val.int, highest_possible)

\* the check starting one flag too high
first_flag_skipping_one(val) == bit_length(val) + 1

\* line 41: first_flag_to_check = val.bit_length()
first_flag_to_check(val) == bit_length(val)

\* lines 46-47: a jump whose target is >= max_val is not emitted
jump_kept(num, max_val) == ~(num >= max_val)

\* the script as the list of its events: label, conditional jumps, behavior
codec(event_no, flags, max_val, credit) ==
    LET cap == effective_cap(max_val, Len(flags))
        event_label == IF credit THEN "l" ELSE "#"
        conditional_jump == IF credit THEN "f" ELSE "<FLJ"
        base_event_num == tsc_value_to_num(event_no)
        eve(val) == num_to_tsc_value(base_event_num + val, 4, <<Space>>, <<Tilde>>)
        RECURSIVE flagjumps(_, _, _)
        flagjumps(val, i, acc) ==
            IF i >= Len(flags) THEN acc
            ELSE LET num == or_bit(val, i)
                 IN IF ~jump_kept(num, cap) THEN flagjumps(val, i + 1, acc)
                    ELSE flagjumps(val, i + 1,
                             Append(acc, [jump |-> conditional_jump, flag |-> flags[i + 1],
                                          target |-> eve(num)]))
        event(val) ==
            [label |-> event_label, number |-> eve(val),
             jumps |-> IF first_flag_to_check(val) < Len(flags)
                       THEN flagjumps(val, first_flag_to_check(val), <<>>) ELSE <<>>,
             behavior |-> default_behavior(val)]
        RECURSIVE events(_, _)
        events(val, acc) ==
            IF val >= cap THEN Return(acc)
            ELSE LET e == event(val)
                 IN IF e.number.status # "ok" THEN Raise(e.number.status)
                    ELSE IF \E j \in 1..Len(e.jumps) : e.jumps[j].target.status # "ok"
                         THEN Raise("range_error")
                    ELSE events(val + 1, Append(acc, e))
    IN events(0, <<>>)

----------------------------------------------------------------------------
(* The generated script run by the game: at an event the first conditional
   jump whose flag is set is taken, otherwise the behavior text runs *)

FlagValues == <<<<48, 49, 48, 48>>, <<48, 49, 48, 49>>, <<48, 49, 48, 50>>, <<48, 49, 48, 51>>,
                <<48, 49, 48, 52>>, <<48, 49, 48, 53>>>>

EventNumbers == {<<48, 48, 48, 48>>, <<48, 49, 48, 48>>, <<48, 48, 48, 45>>, <<57, 57, 57, 56>>}

CodecCalls ==
    {[event_no |-> e, flags |-> SubSeq(FlagValues, 1, n), max_val |-> m, credit |-> c] :
        e \in EventNumbers, n \in 1..MaxFlags,
        m \in {PyNone} \cup {PyInt(k) : k \in (0 - 1)..(Pow2(MaxFlags) + 1)},
        c \in BOOLEAN}

Call_codec ==
    /\ pc = "idle"
    /\ \E c \in CodecCalls :
        /\ arg' = c
        /\ ret' = codec(c.event_no, c.flags, c.max_val, c.credit)
    /\ script' = ret'.value
    /\ op' = "codec"
    /\ pc' = "generated"
    /\ UNCHANGED <<back, loop_i, loop_num, loop_value, cur, ran, njumps>>

\* the flags of memory that are set when the flags hold the integer v
SetFlags(flags, v) == {flags[i + 1] : i \in {k \in 0..(Len(flags) - 1) : bit_is_set(v, k)}}

\* the events a label names
EventsNumbered(number) == {k \in 1..Len(script) : script[k].number = number}

FirstOf(S) == CHOOSE k \in S : \A m \in S : k <= m

\* the flags are given a value v below the cap and the base event is called
Start_event ==
    /\ pc = "generated" /\ ret.status = "ok"
    /\ \E v \in 0..(Pow2(Len(arg.flags)) - 1) :
        /\ v < Len(script)
        /\ back' = v
    /\ EventsNumbered(script[1].number) # {}
    /\ cur' = FirstOf(EventsNumbered(script[1].number))
    /\ njumps' = 0
    /\ pc' = "at_event"
    /\ UNCHANGED <<op, arg, ret, loop_i, loop_num, loop_value, script, ran>>

TakenJumps == {j \in 1..Len(script[cur].jumps) :
                  script[cur].jumps[j].flag \in SetFlags(arg.flags, back)}

Take_jump ==
    /\ pc = "at_event" /\ TakenJumps # {}
    /\ LET target == script[cur].jumps[FirstOf(TakenJumps)].target
       IN IF EventsNumbered(target) = {}
          THEN pc' = "no_such_event" /\ cur' = 0
          ELSE pc' = "at_event" /\ cur' = FirstOf(EventsNumbered(target))
    /\ njumps' = njumps + 1
    /\ UNCHANGED <<op, arg, ret, back, loop_i, loop_num, loop_value, script, ran>>

Run_behavior ==
    /\ pc = "at_event" /\ TakenJumps = {}
    /\ ran' = script[cur].behavior
    /\ pc' = "done"
    /\ UNCHANGED <<op, arg, ret, back, loop_i, loop_num, loop_value, script, cur, njumps>>

CodecNext == Call_codec \/ Start_event \/ Take_jump \/ Run_behavior

\* the game runs an event to its end: a jump or the behavior is not put off
CodecSpec == Init /\ [][CodecNext]_vars /\ WF_vars(Take_jump) /\ WF_vars(Run_behavior)

----------------------------------------------------------------------------
(* Claims about the generated script *)

Cap(c) ==
    IF "none" \in DOMAIN c.max_val THEN Pow2(Len(c.flags))
    ELSE IF c.max_val.int < Pow2(Len(c.flags)) THEN c.max_val.int ELSE Pow2(Len(c.flags))

Running == op = "codec" /\ pc \in {"at_event", "done", "no_such_event"}

C10_Safe ==
    Running =>
        /\ pc # "no_such_event"
        /\ back < Cap(arg)
        /\ LET val == script[cur].behavior.BEHAVIOR
           IN /\ val < Cap(arg)
              /\ val = back % Pow2(bit_length(val))
        /\ njumps <= Len(arg.flags)
        /\ pc = "done" => ran = [BEHAVIOR |-> back]

AtEvent == op = "codec" /\ pc = "at_event"

\* the behavior of the integer the flags hold (back, fixed when the run starts) has run
RanBehaviorOfFlags == IF op = "codec" /\ pc = "done" THEN ran = [BEHAVIOR |-> back] ELSE FALSE

\* C10: with the flags holding v below the effective cap, the run from the
\* base event eventually runs exactly behaviour(v); it visits only events
\* whose value equals v's low bits, follows no jump to a target >= cap and
\* takes at most n jumps.
C10_Dispatch ==
    /\ [](C10_Safe)
    /\ AtEvent ~> RanBehaviorOfFlags

\* three flags holding 5, dispatched with two jumps
C10_Witness ==
    /\ op = "codec" /\ pc = "done" /\ Len(arg.flags) = 3 /\ back = 5
    /\ ran = [BEHAVIOR |-> 5] /\ njumps = 2
    /\ "none" \in DOMAIN arg.max_val

====
